---------------------------- MODULE Spec2Model ----------------------------
(***************************************************************************)
(* Model of the quantum functions, observables, device and quantum nodes   *)
(* of "Quantum computing hands-on.ipynb".                                  *)
(*                                                                         *)
(* Arithmetic is exact.  An amplitude is a Gaussian integer <<re, im>>;   *)
(* the state vector psi carries one common squared scale norm2, so the     *)
(* amplitude of basis state i is psi[i] / sqrt(norm2) and its probability  *)
(* is |psi[i]|^2 / norm2.  A rotation angle t is given by a pair <<c, s>>  *)
(* of integers with cos(t/2) : sin(t/2) = c : s, so RY(t) is the integer   *)
(* matrix [[c, -s], [s, c]] with squared scale c^2 + s^2.  Coefficients of *)
(* observables are kept in tenths (1.7 is 17, -0.2 is -2).                 *)
(* Basis states are numbered with wire 0 as the most significant bit.      *)
(***************************************************************************)
EXTENDS Integers, Sequences, FiniteSets, TLC

VARIABLES
    pc,        \* position of the running call: idle, trace, alloc, exec, measure, return
    node,      \* the quantum node being called
    theta,     \* the parameter list of the running call
    tape,      \* the gate applications recorded by tracing the quantum function
    mp,        \* the measurement the quantum function returned
    idx,       \* number of tape entries the device has applied
    applied,   \* the operations the device has applied, in order
    psi,       \* the state vector of each device (Gaussian integers)
    norm2,     \* the squared scale of each device's state vector
    result,    \* value returned by the last finished call
    log,       \* the finished calls in order: node, parameters, tape, result
    budget,    \* calls still to be made
    O_her,     \* the Hermitian observable, once constructed
    herArg     \* the matrix and wires given to the last observable construction

vars == <<pc, node, theta, tape, mp, idx, applied, psi, norm2, result, log,
          budget, O_her, herArg>>

-----------------------------------------------------------------------------
(* Bounds *)

MaxTheta == 3
MaxCalls == 3
MaxGates == 2
MaxBind == 2

-----------------------------------------------------------------------------
(* Complex integers *)

Re(x) == <<x, 0>>
Im(x) == <<0, x>>
CAdd(a, b) == <<a[1] + b[1], a[2] + b[2]>>
CMul(a, b) == <<a[1] * b[1] - a[2] * b[2], a[1] * b[2] + a[2] * b[1]>>
CConj(a) == <<a[1], -a[2]>>
NormSq(a) == a[1] * a[1] + a[2] * a[2]

RECURSIVE CSumTo(_, _)
CSumTo(f, m) == IF m < 0 THEN <<0, 0>> ELSE CAdd(f[m], CSumTo(f, m - 1))

RECURSIVE SumTo(_, _)
SumTo(f, m) == IF m < 0 THEN 0 ELSE f[m] + SumTo(f, m - 1)

RECURSIVE GCD(_, _)
GCD(a, b) == IF b = 0 THEN a ELSE GCD(b, a % b)

Abs(x) == IF x < 0 THEN -x ELSE x

\* the fraction n/d (d > 0) in lowest terms
Frac(n, d) ==
    LET g == GCD(Abs(n), d) IN <<n \div g, d \div g>>

-----------------------------------------------------------------------------
(* Gate library.  An operation is a gate name, the wires it acts on and    *)
(* its parameter (an angle <<c, s>>, or <<>> for a gate without one).      *)

PauliX(w) == [gate |-> "PauliX", wires |-> <<w>>, par |-> <<>>]
PauliY(w) == [gate |-> "PauliY", wires |-> <<w>>, par |-> <<>>]
PauliZ(w) == [gate |-> "PauliZ", wires |-> <<w>>, par |-> <<>>]
Hadamard(w) == [gate |-> "Hadamard", wires |-> <<w>>, par |-> <<>>]
RY(t, w) == [gate |-> "RY", wires |-> <<w>>, par |-> t]
CZ(ws) == [gate |-> "CZ", wires |-> ws, par |-> <<>>]
CNOT(ws) == [gate |-> "CNOT", wires |-> ws, par |-> <<>>]

\* the 2x2 matrices, as rows of Gaussian integers
MatX == << <<Re(0), Re(1)>>, <<Re(1), Re(0)>> >>
MatY == << <<Re(0), Im(-1)>>, <<Im(1), Re(0)>> >>
MatZ == << <<Re(1), Re(0)>>, <<Re(0), Re(-1)>> >>
MatH == << <<Re(1), Re(1)>>, <<Re(1), Re(-1)>> >>
\* RY with the sign of the upper sine lost
MatRYSignLost(t) == << <<Re(t[1]), Re(t[2])>>, <<Re(t[2]), Re(t[1])>> >>

\* RY(t) = [[cos(t/2), -sin(t/2)], [sin(t/2), cos(t/2)]], scaled by sqrt(c^2 + s^2)
MatRY(t) == << <<Re(t[1]), Re(-t[2])>>, <<Re(t[2]), Re(t[1])>> >>
MatCZ == << <<Re(1), Re(0), Re(0), Re(0)>>,
            <<Re(0), Re(1), Re(0), Re(0)>>,
            <<Re(0), Re(0), Re(1), Re(0)>>,
            <<Re(0), Re(0), Re(0), Re(-1)>> >>
MatCNOT == << <<Re(1), Re(0), Re(0), Re(0)>>,
              <<Re(0), Re(1), Re(0), Re(0)>>,
              <<Re(0), Re(0), Re(0), Re(1)>>,
              <<Re(0), Re(0), Re(1), Re(0)>> >>

\* matrix of an operation
Matrix(op) ==
    CASE op.gate = "PauliX" -> MatX
      [] op.gate = "PauliY" -> MatY
      [] op.gate = "PauliZ" -> MatZ
      [] op.gate = "Hadamard" -> MatH
      [] op.gate = "RY" -> MatRY(op.par)
      [] op.gate = "CZ" -> MatCZ
      [] op.gate = "CNOT" -> MatCNOT

\* squared scale of Matrix(op): Matrix(op) / sqrt(Scale2(op)) is unitary
Scale2(op) ==
    CASE op.gate = "Hadamard" -> 2
      [] op.gate = "RY" -> op.par[1] * op.par[1] + op.par[2] * op.par[2]
      [] OTHER -> 1

-----------------------------------------------------------------------------
(* State vectors: a vector over n wires is a tuple of 2^n amplitudes, the  *)
(* amplitude of basis state i at position i + 1.                           *)

Pow2(n) == 2 ^ n

\* value of wire w in basis state i of an n-wire register
Bit(i, w, n) == (i \div Pow2(n - 1 - w)) % 2

\* the basis state of the wires ws (first wire most significant) within basis state i
Sub(i, ws, n) ==
    SumTo([p \in 0 .. Len(ws) - 1 |-> Bit(i, ws[p + 1], n) * Pow2(Len(ws) - 1 - p)],
          Len(ws) - 1)

\* basis state i with the wires ws set to the basis state j of those wires
Replace(i, ws, n, j) ==
    i + SumTo([p \in 0 .. Len(ws) - 1 |->
                 (Bit(j, p, Len(ws)) - Bit(i, ws[p + 1], n)) * Pow2(n - 1 - ws[p + 1])],
              Len(ws) - 1)

ZeroState(n) == [i \in 1 .. Pow2(n) |-> IF i = 1 THEN Re(1) ELSE Re(0)]

\* contraction of the matrix M with the wires ws of the n-wire vector v
Contract(v, n, M, ws) ==
    [i \in 1 .. Pow2(n) |->
        CSumTo([j \in 0 .. Pow2(Len(ws)) - 1 |->
                   CMul(M[Sub(i - 1, ws, n) + 1][j + 1],
                        v[Replace(i - 1, ws, n, j) + 1])],
               Pow2(Len(ws)) - 1)]

\* <v|w>
Inner(v, w) ==
    CSumTo([i \in 0 .. Len(v) - 1 |-> CMul(CConj(v[i + 1]), w[i + 1])], Len(v) - 1)

\* sum of |amplitude|^2
Norm2Of(v) == SumTo([i \in 0 .. Len(v) - 1 |-> NormSq(v[i + 1])], Len(v) - 1)

\* every wire of the operation is a wire of an n-wire device
InRange(op, n) == \A p \in 1 .. Len(op.wires) : op.wires[p] < n

-----------------------------------------------------------------------------
(* Observables *)

\* coefficients, in tenths
cs == <<17, -2>>

\* Pauli strings: the tensor product of the listed operators
os == << <<PauliX(0), PauliY(1)>>, <<PauliZ(0), PauliZ(1)>> >>

Hamiltonian(coeffs, obs) == [t \in 1 .. Len(coeffs) |-> [c |-> coeffs[t], P |-> obs[t]]]

O_ham == Hamiltonian(cs, os)

\* O_mat with the entry (2, 3) not conjugated
O_matNotConjugated ==
    << <<Re(2), Re(0), Re(0), Im(-17)>>,
       <<Re(0), Re(-2), Im(-17), Re(0)>>,
       <<Re(0), Im(-17), Re(-2), Re(0)>>,
       <<Im(17), Re(0), Re(0), Re(2)>> >>

\* entries in tenths
O_mat == << <<Re(2), Re(0), Re(0), Im(-17)>>,
            <<Re(0), Re(-2), Im(17), Re(0)>>,
            <<Re(0), Im(-17), Re(-2), Re(0)>>,
            <<Im(17), Re(0), Re(0), Re(2)>> >>

IsSquare(m, size) == Len(m) = size /\ \A r \in 1 .. Len(m) : Len(m[r]) = size

ConjTranspose(m) == [r \in 1 .. Len(m) |-> [c \in 1 .. Len(m) |-> CConj(m[c][r])]]

NoObservable == [ok |-> FALSE, err |-> "none", matrix |-> <<>>, wires |-> <<>>]

\* the Hermitian observable of a matrix over the wires ws
Hermitian(m, ws) ==
    IF IsSquare(m, Pow2(Len(ws))) /\ ConjTranspose(m) = m
    THEN [ok |-> TRUE, err |-> "none", matrix |-> m, wires |-> ws]
    ELSE [ok |-> FALSE, err |-> "NotHermitianError", matrix |-> <<>>, wires |-> <<>>]

\* the Pauli string P applied to the vector v, one factor after the other
RECURSIVE PauliApply(_, _, _)
PauliApply(v, n, P) ==
    IF P = <<>> THEN v
    ELSE PauliApply(Contract(v, n, Matrix(Head(P)), Head(P).wires), n, Tail(P))

\* 10 * norm2 * <psi|H|psi>, term by term
ExpvalHam(H, v, n) ==
    SumTo([t \in 0 .. Len(H) - 1 |->
              H[t + 1].c * Inner(v, PauliApply(v, n, H[t + 1].P))[1]],
          Len(H) - 1)

\* 10 * norm2 * <psi|M|psi>, the matrix acting on the wires ws
ExpvalHer(M, ws, v, n) == Inner(v, Contract(v, n, M, ws))[1]

-----------------------------------------------------------------------------
(* Quantum functions, devices and quantum nodes *)

\* angles <<c, s>> with cos(t/2) : sin(t/2) = c : s; theta_value's 0.1, 0.3 and
\* -1.6 have no rational half-angle ratio, and angles of both signs that have
\* one stand for them
\* 0, pi/2, pi, 2 atan(4/3), -2 atan(3/4)
Angles == {<<1, 0>>, <<1, 1>>, <<0, 1>>, <<3, 4>>, <<4, -3>>}

RECURSIVE SeqsUpTo(_, _)
SeqsUpTo(S, n) ==
    IF n = 0 THEN {<<>>}
    ELSE LET T == SeqsUpTo(S, n - 1)
         IN  T \cup {Append(q, x) : q \in {r \in T : Len(r) = n - 1}, x \in S}

\* the operations of a for loop, given those of each of its iterations in turn
ForEach(iters) ==
    LET f[i \in 0 .. Len(iters)] == IF i = 0 THEN <<>> ELSE f[i - 1] \o iters[i]
    IN  f[Len(iters)]

Probs == [kind |-> "probs", obs |-> "none"]
Expval(o) == [kind |-> "expval", obs |-> o]
NoMeasurement == [kind |-> "none", obs |-> "none"]

\* the loop body with RY recorded before X
circ_fn_bodyReordered(t) == <<RY(t, 1), PauliX(0), CZ(<<0, 1>>)>>

\* the loop body with X on wire 1
circ_fn_bodyWrongWire(t) == <<PauliX(1), RY(t, 1), CZ(<<0, 1>>)>>

circ_fn_body(t) == <<PauliX(0), RY(t, 1), CZ(<<0, 1>>)>>
circ_fn(th) == [ops |-> ForEach([i \in 1 .. Len(th) |-> circ_fn_body(th[i])]), ret |-> Probs]

\* the loop body with CNOT(1, 0) for CZ
obs_circ_fn_bodyCNOT(t) == <<PauliX(0), RY(t, 1), CNOT(<<1, 0>>)>>

obs_circ_fn_body(t) == <<PauliX(0), RY(t, 1), CZ(<<0, 1>>)>>
obs_circ_fn(th) == [ops |-> ForEach([i \in 1 .. Len(th) |-> obs_circ_fn_body(th[i])]), ret |-> Expval("O_ham")]

\* the decorated body rotating wire 0
decorated_qfun_bodyWire0(t) == <<PauliX(0), RY(t, 0), CZ(<<0, 1>>)>>

decorated_qfun_body(t) == <<PauliX(0), RY(t, 1), CZ(<<0, 1>>)>>
decorated_qfun(th) == [ops |-> ForEach([i \in 1 .. Len(th) |-> decorated_qfun_body(th[i])]), ret |-> Expval("O_ham")]

\* number of wires of the GHZ exercise
W == 4

\* the GHZ function with control and target of each CNOT exchanged
ghzExchanged == [ops |-> <<Hadamard(0)>> \o [k \in 1 .. W - 1 |-> CNOT(<<k, 0>>)], ret |-> Probs]

\* Hadamard on wire 0, then CNOT(0, k) for k = 1 .. W - 1
ghz == [ops |-> <<Hadamard(0)>> \o [k \in 1 .. W - 1 |-> CNOT(<<0, k>>)], ret |-> Probs]

Devices == {"dev", "dev_ghz"}

\* every device as wide as the GHZ exercise
WiresAllW(d) == W

\* number of wires of a device
Wires(d) == IF d = "dev" THEN 2 ELSE W

\* the device a quantum node is bound to
DeviceOf(n) == IF n = "ghz_qnode" THEN "dev_ghz" ELSE "dev"

\* the quantum function a quantum node is bound to, traced with the parameters th
QFun(n, th) ==
    CASE n = "circ_qnode" -> circ_fn(th)
      [] n = "obs_qnode" -> obs_circ_fn(th)
      [] n = "decorated_qfun" -> decorated_qfun(th)
      [] n \in {"ghz_qnode", "ghz_on_dev"} -> ghz

NoResult == [err |-> "none", val |-> <<>>]

\* the device keeps the state the last execution left
FreshStateKept(old, n) == old

\* the state vector a device starts an execution with
FreshState(old, n) == ZeroState(n)

\* the value of the measurement m on the state v of squared scale s2 over n wires
Measure(m, Oher, v, s2, n) ==
    CASE m.kind = "probs" -> [i \in 1 .. Pow2(n) |-> Frac(NormSq(v[i]), s2)]
      [] m.kind = "expval" /\ m.obs = "O_ham" -> <<Frac(ExpvalHam(O_ham, v, n), 10 * s2)>>
      [] m.kind = "expval" /\ m.obs = "O_her" ->
             <<Frac(ExpvalHer(Oher.matrix, Oher.wires, v, n), 10 * s2)>>

-----------------------------------------------------------------------------
(* Inputs *)

Thetas == SeqsUpTo(Angles, MaxTheta)

MainNodes == {"circ_qnode", "obs_qnode", "decorated_qfun"}

\* calls of the purity runs: the two expectation nodes and the GHZ function on
\* a W-wire device and on dev
PureCalls ==
    {<<n, th>> : n \in {"obs_qnode", "decorated_qfun"},
                 th \in SeqsUpTo({<<1, 1>>, <<3, 4>>}, 1)}
        \cup {<<"ghz_qnode", <<>>>>, <<"ghz_on_dev", <<>>>>}

BindCalls ==
    {<<n, th>> : n \in {"obs_qnode", "decorated_qfun"},
                 th \in SeqsUpTo({<<1, 0>>, <<1, 1>>, <<3, 4>>}, MaxBind)}

\* the gate applications a 2-wire circuit can be made of
LibraryOps ==
    {PauliX(w) : w \in 0 .. 1} \cup {PauliY(w) : w \in 0 .. 1}
        \cup {PauliZ(w) : w \in 0 .. 1} \cup {Hadamard(w) : w \in 0 .. 1}
        \cup {RY(t, w) : t \in {<<1, 1>>, <<3, 4>>}, w \in 0 .. 1}
        \cup {CZ(ws) : ws \in {<<0, 1>>, <<1, 0>>}}
        \cup {CNOT(ws) : ws \in {<<0, 1>>, <<1, 0>>}}

\* the matrix m with entry (r, c) replaced by v
WithEntry(m, r, c, v) ==
    [i \in 1 .. Len(m) |->
        [j \in 1 .. Len(m[i]) |-> IF i = r /\ j = c THEN v ELSE m[i][j]]]

\* matrices and wires offered to the construction of a Hermitian observable
HermitianArgs ==
    {<<WithEntry(O_mat, r, c, v), <<0, 1>>>> :
        r \in 1 .. 4, c \in 1 .. 4, v \in {Im(17)}}
        \cup {<<O_mat, <<0, 1>>>>, <<O_mat, <<0>>>>, <<SubSeq(O_mat, 1, 3), <<0, 1>>>>,
              <<MatY, <<0>>>>, <<MatY, <<0, 1>>>>, <<MatRY(<<3, 4>>), <<1>>>>}

-----------------------------------------------------------------------------
(* The notebook's cells *)

TypeInit ==
    /\ pc = "idle"
    /\ node = "none"
    /\ theta = <<>>
    /\ tape = <<>>
    /\ mp = NoMeasurement
    /\ idx = 0
    /\ applied = <<>>
    /\ psi = [d \in Devices |-> ZeroState(Wires(d))]
    /\ norm2 = [d \in Devices |-> 1]
    /\ result = NoResult
    /\ log = <<>>

\* all cells up to the device run; one call of a quantum node follows
Init ==
    /\ TypeInit
    /\ budget = 1
    /\ O_her = Hermitian(O_mat, <<0, 1>>)
    /\ herArg = <<O_mat, <<0, 1>>>>

InitPure ==
    /\ TypeInit
    /\ budget = MaxCalls
    /\ O_her = Hermitian(O_mat, <<0, 1>>)
    /\ herArg = <<O_mat, <<0, 1>>>>

InitBind ==
    /\ TypeInit
    /\ budget = 2
    /\ O_her = Hermitian(O_mat, <<0, 1>>)
    /\ herArg = <<O_mat, <<0, 1>>>>

\* no observable built yet
InitLib ==
    /\ TypeInit
    /\ budget = 1
    /\ O_her = NoObservable
    /\ herArg = <<<<>>, <<>>>>

\* qml.Hermitian(m, wires=ws)
Construct ==
    /\ pc = "idle"
    /\ budget > 0
    /\ herArg = <<<<>>, <<>>>>
    /\ \E a \in HermitianArgs :
          /\ herArg' = a
          /\ O_her' = Hermitian(a[1], a[2])
    /\ UNCHANGED <<pc, node, theta, tape, mp, idx, applied, psi, norm2, result,
                   log, budget>>

\* the quantum node n is called with the parameters th
Invoke(n, th) ==
    /\ pc = "idle"
    /\ budget > 0
    /\ budget' = budget - 1
    /\ pc' = "trace"
    /\ node' = n
    /\ theta' = th
    /\ tape' = <<>>
    /\ mp' = NoMeasurement
    /\ UNCHANGED <<idx, applied, psi, norm2, result, log, O_her, herArg>>

Call == \E n \in MainNodes, th \in Thetas : Invoke(n, th)

CallPure == \E c \in PureCalls : Invoke(c[1], c[2])

CallBind == \E c \in BindCalls : Invoke(c[1], c[2])

CallLib == Invoke("lib_qnode", <<>>)

\* the quantum function runs its next gate statement, which is recorded
TraceGate ==
    /\ pc = "trace"
    /\ node # "lib_qnode"
    /\ Len(tape) < Len(QFun(node, theta).ops)
    /\ tape' = Append(tape, QFun(node, theta).ops[Len(tape) + 1])
    /\ UNCHANGED <<pc, node, theta, mp, idx, applied, psi, norm2, result, log,
                   budget, O_her, herArg>>

\* the quantum function returns its measurement
TraceReturn ==
    /\ pc = "trace"
    /\ node # "lib_qnode"
    /\ Len(tape) = Len(QFun(node, theta).ops)
    /\ mp' = QFun(node, theta).ret
    /\ pc' = "alloc"
    /\ UNCHANGED <<node, theta, tape, idx, applied, psi, norm2, result, log,
                   budget, O_her, herArg>>

\* a quantum function made of any gates of the library records one of them
TraceAny ==
    /\ pc = "trace"
    /\ node = "lib_qnode"
    /\ Len(tape) < MaxGates
    /\ \E op \in LibraryOps : tape' = Append(tape, op)
    /\ UNCHANGED <<pc, node, theta, mp, idx, applied, psi, norm2, result, log,
                   budget, O_her, herArg>>

\* ... and returns probabilities or the expectation of one of the observables
TraceAnyReturn ==
    /\ pc = "trace"
    /\ node = "lib_qnode"
    /\ \E m \in {Probs, Expval("O_ham")} \cup (IF O_her.ok THEN {Expval("O_her")} ELSE {}) :
          mp' = m
    /\ pc' = "alloc"
    /\ UNCHANGED <<node, theta, tape, idx, applied, psi, norm2, result, log,
                   budget, O_her, herArg>>

\* the device starts the execution from the all-zero state
Allocate ==
    /\ pc = "alloc"
    /\ LET d == DeviceOf(node)
       IN  /\ psi' = [psi EXCEPT ![d] = FreshState(psi[d], Wires(d))]
           /\ norm2' = [norm2 EXCEPT ![d] = 1]
    /\ idx' = 0
    /\ applied' = <<>>
    /\ pc' = "exec"
    /\ UNCHANGED <<node, theta, tape, mp, result, log, budget, O_her, herArg>>

\* the device applies the next recorded operation, or fails on a wire it does not have
ApplyGate ==
    /\ pc = "exec"
    /\ idx < Len(tape)
    /\ LET d == DeviceOf(node)
           op == tape[idx + 1]
       IN  IF InRange(op, Wires(d))
           THEN /\ psi' = [psi EXCEPT ![d] = Contract(psi[d], Wires(d), Matrix(op), op.wires)]
                /\ norm2' = [norm2 EXCEPT ![d] = norm2[d] * Scale2(op)]
                /\ idx' = idx + 1
                /\ applied' = Append(applied, op)
                /\ UNCHANGED <<pc, result>>
           ELSE /\ result' = [err |-> "WireOutOfRangeError", val |-> <<>>]
                /\ pc' = "return"
                /\ UNCHANGED <<psi, norm2, idx, applied>>
    /\ UNCHANGED <<node, theta, tape, mp, log, budget, O_her, herArg>>

\* all operations applied: the device evaluates the measurement
MeasureState ==
    /\ pc = "exec"
    /\ idx = Len(tape)
    /\ LET d == DeviceOf(node)
       IN  result' = [err |-> "none", val |-> Measure(mp, O_her, psi[d], norm2[d], Wires(d))]
    /\ pc' = "return"
    /\ UNCHANGED <<node, theta, tape, mp, idx, applied, psi, norm2, log, budget,
                   O_her, herArg>>

\* the call returns (or raises); the tape and the parameters are dropped
Return ==
    /\ pc = "return"
    /\ log' = Append(log, [node |-> node, theta |-> theta, tape |-> tape, result |-> result])
    /\ pc' = "idle"
    /\ node' = "none"
    /\ theta' = <<>>
    /\ tape' = <<>>
    /\ mp' = NoMeasurement
    /\ idx' = 0
    /\ applied' = <<>>
    /\ UNCHANGED <<psi, norm2, result, budget, O_her, herArg>>

Next ==
    \/ Call
    \/ TraceGate
    \/ TraceReturn
    \/ Allocate
    \/ ApplyGate
    \/ MeasureState
    \/ Return

NextPure ==
    \/ CallPure
    \/ TraceGate
    \/ TraceReturn
    \/ Allocate
    \/ ApplyGate
    \/ MeasureState
    \/ Return

NextBind ==
    \/ CallBind
    \/ TraceGate
    \/ TraceReturn
    \/ Allocate
    \/ ApplyGate
    \/ MeasureState
    \/ Return

NextLib ==
    \/ Construct
    \/ CallLib
    \/ TraceAny
    \/ TraceAnyReturn
    \/ Allocate
    \/ ApplyGate
    \/ MeasureState
    \/ Return

Spec == Init /\ [][Next]_vars
SpecPure == InitPure /\ [][NextPure]_vars
SpecBind == InitBind /\ [][NextBind]_vars
SpecLib == InitLib /\ [][NextLib]_vars

TypeOK == pc \in {"idle", "trace", "alloc", "exec", "return"}

-----------------------------------------------------------------------------
(* Properties *)

\* the probability p/q of an entry of a probability vector, over the denominator s2
Over(f, s2) == f[1] * (s2 \div f[2])

\* C1: on every state of the 2-wire device the expectation of the Hermitian
\* form (O_mat on wires (0, 1)) equals the expectation of the Pauli form
\* (1.7 X(0)Y(1) - 0.2 Z(0)Z(1)).
C1_SameObservable ==
    ExpvalHer(O_mat, <<0, 1>>, psi["dev"], 2) = ExpvalHam(O_ham, psi["dev"], 2)

\* C2: once traced, the tape of a loop circuit is X(0), RY(theta_i, 1),
\* CZ(0, 1) for i = 1 .. n in that order; while tracing it is a prefix of
\* that; and the device has applied exactly the first idx entries of the
\* tape, in order, all of them when it measures.
C2_GateOrder ==
    /\ node \in MainNodes =>
          /\ Len(tape) <= 3 * Len(theta)
          /\ pc \in {"alloc", "exec", "return"} => Len(tape) = 3 * Len(theta)
          /\ \A p \in 1 .. Len(tape) :
                LET i == (p + 2) \div 3
                IN  tape[p] = CASE p % 3 = 1 -> PauliX(0)
                                [] p % 3 = 2 -> RY(theta[i], 1)
                                [] p % 3 = 0 -> CZ(<<0, 1>>)
    /\ pc \in {"exec", "return"} =>
          /\ idx <= Len(tape)
          /\ applied = SubSeq(tape, 1, idx)
    /\ pc = "return" => applied = tape

C2_Witness ==
    /\ pc = "return"
    /\ node = "circ_qnode"
    /\ theta = <<<<1, 1>>, <<3, 4>>, <<4, -3>>>>
    /\ Len(applied) = 9

\* C3: circ_fn with the one parameter theta = 0 returns probability 1 at |10>
\* and 0 at |00>, |01> and |11>.
C3_ThetaZero ==
    (pc = "return" /\ node = "circ_qnode" /\ theta = <<<<1, 0>>>>) =>
        result = [err |-> "none", val |-> <<<<0, 1>>, <<0, 1>>, <<1, 1>>, <<0, 1>>>>]

C3_Witness ==
    /\ pc = "return"
    /\ node = "circ_qnode"
    /\ theta = <<<<1, 0>>>>
    /\ applied = <<PauliX(0), RY(<<1, 0>>, 1), CZ(<<0, 1>>)>>

\* C4: the GHZ function on a 4-wire device ends with nonzero amplitudes at
\* |0000> and |1111> only, and returns probability 1/2 for each of the two
\* and 0 for the 14 other basis states.
C4_GHZ ==
    (pc = "return" /\ node = "ghz_qnode") =>
        /\ Len(psi["dev_ghz"]) = 16
        /\ \A i \in 1 .. 16 : (psi["dev_ghz"][i] # <<0, 0>>) <=> (i \in {1, 16})
        /\ result = [err |-> "none",
                     val |-> [i \in 1 .. 16 |-> IF i \in {1, 16} THEN <<1, 2>> ELSE <<0, 1>>]]

C4_Witness ==
    /\ pc = "return"
    /\ node = "ghz_qnode"
    /\ applied = <<Hadamard(0), CNOT(<<0, 1>>), CNOT(<<0, 2>>), CNOT(<<0, 3>>)>>

\* C5: on every device the squared amplitudes sum to the squared scale at
\* every step of every circuit of library gates, so the probabilities sum to
\* 1; a returned probability vector sums to 1, and that of the empty circuit
\* is 1 at |00> and 0 elsewhere.
C5_Normalized ==
    /\ \A d \in Devices : Norm2Of(psi[d]) = norm2[d]
    /\ (pc = "return" /\ mp = Probs /\ result.err = "none") =>
          /\ SumTo([i \in 0 .. Len(result.val) - 1 |->
                       Over(result.val[i + 1], norm2[DeviceOf(node)])],
                   Len(result.val) - 1) = norm2[DeviceOf(node)]
          /\ \A i \in 1 .. Len(result.val) : result.val[i][1] >= 0
          /\ tape = <<>> =>
                result.val = <<<<1, 1>>, <<0, 1>>, <<0, 1>>, <<0, 1>>>>

C5_Witness ==
    /\ pc = "return"
    /\ mp = Probs
    /\ applied = <<RY(<<3, 4>>, 1), Hadamard(0)>>
    /\ norm2["dev"] = 50
    /\ result.val = <<<<9, 50>>, <<8, 25>>, <<9, 50>>, <<8, 25>>>>

\* C6: two finished calls of the same node with the same parameters returned
\* the same result, whatever was called before or between them.
C6_Pure ==
    \A i, j \in 1 .. Len(log) :
        (log[i].node = log[j].node /\ log[i].theta = log[j].theta) =>
            log[i].result = log[j].result

C6_Witness ==
    /\ Len(log) = 3
    /\ log[1].node = "obs_qnode" /\ log[1].theta = <<<<3, 4>>>>
    /\ log[2].node = "decorated_qfun" /\ log[2].theta = <<<<1, 1>>>>
    /\ log[3].node = "obs_qnode" /\ log[3].theta = <<<<3, 4>>>>
    /\ log[2].result # log[3].result

\* C7: a call fails with WireOutOfRangeError, returning no value, exactly when
\* its circuit has a gate on a wire the device does not have, and a call made
\* after a failed one returns what the same call returned before it.
C7_WireOutOfRange ==
    /\ \A i \in 1 .. Len(log) :
          LET bad == \E p \in 1 .. Len(log[i].tape) :
                        \E q \in 1 .. Len(log[i].tape[p].wires) :
                           log[i].tape[p].wires[q] >= (IF log[i].node = "ghz_qnode" THEN 4 ELSE 2)
          IN  /\ bad <=> log[i].result.err = "WireOutOfRangeError"
              /\ bad => log[i].result.val = <<>>
              /\ log[i].node = "ghz_on_dev" => bad
    /\ \A i, j, k \in 1 .. Len(log) :
          (/\ i < j /\ j < k
           /\ log[j].result.err # "none"
           /\ log[i].node = log[k].node /\ log[i].theta = log[k].theta) =>
              log[i].result = log[k].result

C7_Witness ==
    /\ Len(log) = 3
    /\ log[1].node = "obs_qnode" /\ log[1].theta = <<<<3, 4>>>>
    /\ log[1].result.err = "none"
    /\ log[2].node = "ghz_on_dev"
    /\ log[2].result = [err |-> "WireOutOfRangeError", val |-> <<>>]
    /\ log[3].node = "obs_qnode" /\ log[3].theta = <<<<3, 4>>>>

\* C8: the construction of a Hermitian observable succeeds exactly when the
\* matrix is square of size 2^(number of wires) and each entry (i, j) is the
\* conjugate of entry (j, i); otherwise it fails with NotHermitianError and
\* there is no observable.  O_mat on wires (0, 1) is 4x4 and Hermitian and
\* its construction succeeds.
C8_Hermitian ==
    /\ herArg # <<<<>>, <<>>>> =>
          LET m == herArg[1]
              size == Pow2(Len(herArg[2]))
              good == /\ Len(m) = size
                      /\ \A r \in 1 .. Len(m) : Len(m[r]) = size
                      /\ \A r, c \in 1 .. Len(m) :
                            m[r][c][1] = m[c][r][1] /\ m[r][c][2] = -m[c][r][2]
          IN  /\ O_her.ok <=> good
              /\ O_her.ok => O_her.matrix = m /\ O_her.wires = herArg[2] /\ O_her.err = "none"
              /\ ~O_her.ok => O_her.err = "NotHermitianError" /\ O_her.matrix = <<>>
    /\ herArg = <<O_mat, <<0, 1>>>> => O_her.ok
    /\ Len(O_mat) = 4
    /\ \A r, c \in 1 .. 4 : O_mat[r][c] = CConj(O_mat[c][r])

C8_Witness ==
    /\ herArg = <<O_mat, <<0, 1>>>>
    /\ O_her.ok
    /\ O_her.matrix[1][4] = <<0, -17>>

\* C9: in a loop circuit, after the X of k iterations has been applied wire 0
\* has the value k mod 2 with probability 1, at every step and for all
\* parameter values; in an even-numbered iteration CZ leaves the state as it
\* is; and with 3 parameters the probability of wire 0 being 1 is 1.
C9_WireZero ==
    (pc \in {"exec", "return"} /\ node \in MainNodes) =>
        LET v == psi["dev"]
            k == (idx + 2) \div 3
        IN  /\ \A i \in 1 .. 4 : Bit(i - 1, 0, 2) # k % 2 => v[i] = <<0, 0>>
            /\ (idx < Len(tape) /\ idx % 3 = 2 /\ k % 2 = 0) =>
                  /\ tape[idx + 1].gate = "CZ"
                  /\ Contract(v, 2, MatCZ, <<0, 1>>) = v
            /\ (pc = "return" /\ node = "circ_qnode" /\ Len(theta) = 3) =>
                  /\ result.val[1] = <<0, 1>>
                  /\ result.val[2] = <<0, 1>>
                  /\ Over(result.val[3], norm2["dev"]) + Over(result.val[4], norm2["dev"])
                        = norm2["dev"]

C9_Witness ==
    /\ pc = "return"
    /\ node = "circ_qnode"
    /\ theta = <<<<1, 1>>, <<3, 4>>, <<4, -3>>>>
    /\ idx = 9
    /\ result.val[3] # <<0, 1>>
    /\ result.val[4] # <<0, 1>>

=============================================================================
